---- MODULE Spec2Model ----
(***************************************************************************)
(* The register-coverage dashboard of yadro-riscv-verifier                 *)
(* (src/dashboard/app.py): the loader of results/register_matrix.json with *)
(* its fallback to a seeded demo matrix, the loaders of the coverage and   *)
(* bug reports, the memoisation of the loaders (st.cache_data), and the    *)
(* render pass of the "register analysis" tab: the vertically flipped      *)
(* heatmap copy and the lookup of a cell by its two-hex-digit address.     *)
(* Around it the pass draws the sidebar (severity checkboxes, progress     *)
(* bar), the headline metrics, the bug tab and the reports tab with its    *)
(* three writing buttons.  The scan for the cells under a threshold, which *)
(* app.py carries as a disabled (commented-out) block, and the animated    *)
(* chart of utils/chart_utils.py, which no page calls, are modelled apart  *)
(* from the pass.                                                          *)
(*                                                                         *)
(* Numbers are integers (whole percents).  json.load and numpy are library *)
(* code: a file is modelled by the JSON value it parses to (or by the fact *)
(* that it does not parse), np.array by numpy's shape discovery and dtype  *)
(* promotion (numpy >= 1.24: a ragged nesting raises ValueError), and the  *)
(* global generator np.random by a small deterministic generator whose     *)
(* output is a function of its state.                                      *)
(***************************************************************************)
EXTENDS Integers, Sequences, FiniteSets, TLC

VARIABLES
    file,                     \* results/register_matrix.json on disk
    rng,                      \* state of numpy's global generator np.random
    cache,                    \* st.cache_data entry of load_register_matrix
    pc,                       \* position of the script in the render pass
    clicked,                  \* the refresh button was clicked for this pass
    register_matrix,          \* script global, app.py:154
    register_matrix_display,  \* script global, app.py:375
    addr_input,               \* content of the address text box, app.py:467
    lookup_out,               \* what the lookup block put on the page
    script_exc,               \* the exception that stopped the pass, or "none"
    cov_file,                 \* results/latest_coverage.json on disk
    bugs_file,                \* results/bugs.json on disk
    cov_cache,                \* st.cache_data entry of load_coverage_data
    bugs_cache,               \* st.cache_data entry of load_bugs_data
    coverage_data,            \* script global, app.py:152
    bugs_data,                \* script global, app.py:153
    threshold,                \* value of the threshold slider, app.py:506
    problem_addrs,            \* the rows the scan collects, app.py:515
    df_problems,              \* the table of the scan, app.py:539-540
    show,                     \* values of the severity checkboxes, app.py:176-179
    selected_severity,        \* script global, app.py:181-185
    progress,                 \* the value passed to st.progress, app.py:206
    bugs_found,               \* the "bugs found" metric, app.py:240-244
    df_filtered,              \* the bug table of tab 3, app.py:670-675
    export_format,            \* value of the export select box, app.py:730
    pressed,                  \* the reports-tab button clicked for this pass
    results_dir,              \* the directory results/ on disk
    saved,                    \* what the reports tab put on the page
    history_df,               \* argument of create_animated_coverage
    fig_animated              \* the figure create_animated_coverage returned

\* The report files; the variables of the threshold scan.
dataFiles == <<cov_file, bugs_file>>
scanVars == <<threshold, problem_addrs, df_problems>>
\* What the page shows outside the register tab; the widgets beside the
\* address box; the variables of the animated chart.
pageOut == <<selected_severity, progress, bugs_found, df_filtered, saved>>
widgets == <<show, export_format, pressed>>
pageVars == <<pageOut, widgets, results_dir>>
animVars == <<history_df, fig_animated>>

vars == <<file, rng, cache, pc, clicked, register_matrix,
          register_matrix_display, addr_input, lookup_out, script_exc,
          cov_file, bugs_file, cov_cache, bugs_cache, coverage_data, bugs_data,
          threshold, problem_addrs, df_problems,
          show, selected_severity, progress, bugs_found, df_filtered,
          export_format, pressed, results_dir, saved, history_df,
          fig_animated>>

----------------------------------------------------------------------------
(* Program constants *)

N == 16            \* rows and columns of the grid
FlatSize == 256    \* length of the flat form
Seed == 42         \* np.random.seed(42)
RandLow == 60      \* np.random.randint(60, 101, ...): low, inclusive
RandHigh == 101    \* high, exclusive

(* Bounds of the model: the number of states of the abstract generator;   *)
(* the longest history given to the animated chart                         *)
RngMod == 2
MaxHistory == 3

----------------------------------------------------------------------------
(* JSON values.  Every value is a record of the same four fields:          *)
(*   t      "num" | "str" | "bool" | "null" | "list" | "dict" | "object"   *)
(*   n      the number (num), 1 or 0 (bool)                                *)
(*   s      the text (str), the key (dict: an object of at most one key)   *)
(*   items  the elements (list), the value under the key (dict), the       *)
(*          entries, each a dict of one key (object: several keys)         *)

Num(n)     == [t |-> "num",  n |-> n, s |-> "", items |-> <<>>]
Str(s)     == [t |-> "str",  n |-> 0, s |-> s,  items |-> <<>>]
Bool(b)    == [t |-> "bool", n |-> IF b THEN 1 ELSE 0, s |-> "", items |-> <<>>]
Null       == [t |-> "null", n |-> 0, s |-> "", items |-> <<>>]
List(xs)   == [t |-> "list", n |-> 0, s |-> "", items |-> xs]
Dict(k, v) == [t |-> "dict", n |-> 0, s |-> k,  items |-> <<v>>]
EmptyDict  == [t |-> "dict", n |-> 0, s |-> "", items |-> <<>>]
Object(entries) == [t |-> "object", n |-> 0, s |-> "", items |-> entries]

isinstance_dict(data) == data.t \in {"dict", "object"}
isinstance_list(data) == data.t = "list"
\* key in data
HasKey(data, key) ==
    IF data.t = "dict" THEN Len(data.items) = 1 /\ data.s = key
    ELSE data.t = "object" /\ \E i \in 1..Len(data.items) : data.items[i].s = key
\* data[key], for a key that is in data
GetKey(data, key) ==
    IF data.t = "dict" THEN data.items[1]
    ELSE data.items[CHOOSE i \in 1..Len(data.items) : data.items[i].s = key].items[1]
\* data.get(key, default)
DictGet(data, key, default) == IF HasKey(data, key) THEN GetKey(data, key) ELSE default
\* Mutant of the key test: the key looked for is "data".
HasMatrixKey_DataKey(data) == HasKey(data, "data")

\* 'matrix' in data
HasMatrixKey(data) == HasKey(data, "matrix")

----------------------------------------------------------------------------
(* numpy.  An ndarray is [shape, dtype, data]: data holds the cells in     *)
(* C (row-major) order, as numpy stores them, and a cell is a JSON scalar. *)

NdArray(shape, dtype, data) == [shape |-> shape, dtype |-> dtype, data |-> data]
NoArray == NdArray(<<>>, "none", <<>>)      \* no array (None, or not yet bound)

ndim(a) == Len(a.shape)
size(a) == Len(a.data)

\* str(n) of an integer
Digits == <<"0", "1", "2", "3", "4", "5", "6", "7", "8", "9">>
RECURSIVE IntToStr(_)
IntToStr(n) ==
    IF n < 0 THEN "-" \o IntToStr(-n)
    ELSE IF n < 10 THEN Digits[n + 1]
    ELSE IntToStr(n \div 10) \o Digits[(n % 10) + 1]

\* The shape numpy discovers in a nesting of lists: the lengths met on the
\* way down the first elements.  Anything but a list is a scalar.
RECURSIVE DiscoverShape(_)
DiscoverShape(v) ==
    IF v.t # "list" THEN <<>>
    ELSE IF Len(v.items) = 0 THEN <<0>>
    ELSE <<Len(v.items)>> \o DiscoverShape(v.items[1])

\* Whether every element at every level has the shape of its first sibling.
RECURSIVE Homogeneous(_)
Homogeneous(v) ==
    \/ v.t # "list"
    \/ \A i \in 1..Len(v.items) :
          /\ DiscoverShape(v.items[i]) = DiscoverShape(v.items[1])
          /\ Homogeneous(v.items[i])

\* The scalars of a homogeneous nesting, row-major: those of the first
\* element, then those of the second, ...
RECURSIVE Leaves(_)
Leaves(v) ==
    IF v.t # "list" THEN <<v>>
    ELSE IF Len(v.items) = 0 THEN <<>>
    ELSE LET parts == [k \in 1..Len(v.items) |-> Leaves(v.items[k])]
             m     == Len(parts[1])
         IN  [i \in 1..(Len(v.items) * m) |->
                 parts[((i - 1) \div m) + 1][((i - 1) % m) + 1]]

\* dtype promotion over the scalars: None or an object (dict) gives an
\* object array, else any string makes every cell a string, else any number
\* makes every cell a number, else the cells are booleans.
ResultDtype(leaves) ==
    LET kinds == {leaves[i].t : i \in 1..Len(leaves)}
    IN  IF kinds = {} THEN "float"
        ELSE IF kinds \cap {"null", "dict", "object"} # {} THEN "object"
        ELSE IF "str" \in kinds THEN "str"
        ELSE IF "num" \in kinds THEN "num"
        ELSE "bool"

CastCell(c, dtype) ==
    CASE dtype = "str" /\ c.t = "num"  -> Str(IntToStr(c.n))
      [] dtype = "str" /\ c.t = "bool" -> Str(IF c.n = 1 THEN "True" ELSE "False")
      [] dtype = "num" /\ c.t = "bool" -> Num(c.n)
      [] OTHER -> c

\* np.array(v): [exc, val].  exc is "none" or the exception raised.
np_array(v) ==
    IF ~Homogeneous(v)
    THEN [exc |-> "ValueError", val |-> NoArray]
    ELSE LET leaves == Leaves(v)
             dtype  == ResultDtype(leaves)
         IN  [exc |-> "none",
              val |-> NdArray(DiscoverShape(v), dtype,
                              [i \in 1..Len(leaves) |-> CastCell(leaves[i], dtype)])]

\* Mutant of reshape: Fortran order (order='F'), cell (h, l) is data[h + r*l].
reshape_ColumnMajor(a, r, c) ==
    NdArray(<<r, c>>, a.dtype,
            [i \in 1..Len(a.data) |-> a.data[((i - 1) % c) * r + ((i - 1) \div c) + 1]])

\* a.reshape(r, c) of a one-dimensional array of r*c cells: C order, the
\* cells keep their place in memory and cell (h, l) is data[h*c + l].
reshape(a, r, c) == NdArray(<<r, c>>, a.dtype, a.data)

\* a[h, l] of a two-dimensional array, h and l from 0.
GetItem(a, h, l) == a.data[h * a.shape[2] + l + 1]

\* a[h, l] = v
SetItem(a, h, l, v) ==
    NdArray(a.shape, a.dtype, [a.data EXCEPT ![h * a.shape[2] + l + 1] = v])

\* np.flipud(a): a new array (a view in numpy; its base is never written to
\* here) with the rows in reverse order.
flipud(a) ==
    LET r == a.shape[1]
        c == a.shape[2]
    IN  NdArray(a.shape, a.dtype,
                [i \in 1..Len(a.data) |->
                    a.data[(r - 1 - ((i - 1) \div c)) * c + ((i - 1) % c) + 1]])

\* float(s) of a string: the texts of the whole numbers of 0..FlatSize
\* convert, any other text used here raises ValueError.
TextToNumber == [n \in 0..FlatSize |-> IntToStr(n)]
NumericTexts == {TextToNumber[n] : n \in 0..FlatSize}
FloatOfText(s) == CHOOSE n \in 0..FlatSize : TextToNumber[n] = s

\* a.astype(float): [exc, val].  A number or a boolean converts, None
\* becomes nan, a string converts when it is the text of a number and
\* raises ValueError otherwise, any other object raises TypeError.
Nan == [t |-> "nan", n |-> 0, s |-> "", items |-> <<>>]
CellToFloat(c) ==
    CASE c.t \in {"num", "bool"} -> Num(c.n)
      [] c.t = "null" -> Nan
      [] c.t = "str"  -> Num(FloatOfText(c.s))
      [] OTHER -> c
astype_float(a) ==
    IF \E i \in 1..Len(a.data) : a.data[i].t = "str" /\ a.data[i].s \notin NumericTexts
    THEN [exc |-> "ValueError", val |-> NoArray]
    ELSE IF \E i \in 1..Len(a.data) : a.data[i].t \in {"dict", "object"}
    THEN [exc |-> "TypeError", val |-> NoArray]
    ELSE [exc |-> "none",
          val |-> NdArray(a.shape, "float",
                          [i \in 1..Len(a.data) |-> CellToFloat(a.data[i])])]

----------------------------------------------------------------------------
(* np.random: the global generator.  Its state is a number below RngMod;   *)
(* a draw is a function of the state and advances it.                      *)

RngStates == 0..(RngMod - 1)

np_random_seed(seed) == seed % RngMod

\* np.random.randint(low, high, count) in state st: count integers of
\* low..high-1, and the state after the draw.
np_random_randint(st, low, high, count) ==
    [data  |-> [i \in 1..count |->
                   Num(low + (((st + 1) * (i + 2) + i * i) % (high - low)))],
     state |-> (st + 1) % RngMod]

\* Any other draw (the coverage loader's, the charts page's): the state
\* moves on.
np_random_advance(st) == (st + 1) % RngMod

----------------------------------------------------------------------------
(* load_register_matrix, app.py:112-148 *)

\* results/register_matrix.json: absent, present and unreadable, present
\* and not JSON, or present with the JSON value v.
Absent     == [st |-> "absent",     v |-> Null]
Unreadable == [st |-> "unreadable", v |-> Null]
Garbled    == [st |-> "garbled",    v |-> Null]
Json(v)    == [st |-> "json",       v |-> v]

\* matrix_file.exists()
exists(f) == f.st # "absent"

\* with open(...) as f: data = json.load(f)
json_load(f) ==
    CASE f.st = "unreadable" -> [exc |-> "OSError", val |-> Null]
      [] f.st = "garbled"    -> [exc |-> "JSONDecodeError", val |-> Null]
      [] OTHER               -> [exc |-> "none", val |-> f.v]

\* Mutants of the shape test: the test left out; a test that never passes
\* (a shape compared with a list, [16, 16], is never equal).
ShapeIsGrid_Skipped(matrix) == TRUE
ShapeIsGrid_Never(matrix) == FALSE

\* matrix.shape == (16, 16)
ShapeIsGrid(matrix) == matrix.shape = <<N, N>>

\* matrix.ndim == 1 and matrix.size == 256
IsFlatGrid(matrix) == ndim(matrix) = 1 /\ size(matrix) = FlatSize

\* The body of the try statement, lines 119-136: [exc, returned, val].
\* exc is the exception that left the body ("none": none did), returned
\* says that the body ended in "return matrix", val is the matrix returned.
TryBody(f) ==
    LET raise(e) == [exc |-> e, returned |-> FALSE, val |-> NoArray]
        loaded   == json_load(f)
        data     == loaded.val
        arr      == IF isinstance_dict(data) /\ HasMatrixKey(data)
                    THEN np_array(GetKey(data, "matrix"))
                    ELSE np_array(data)
        matrix   == IF IsFlatGrid(arr.val) THEN reshape(arr.val, N, N) ELSE arr.val
    IN  IF loaded.exc # "none" THEN raise(loaded.exc)
        ELSE IF ~((isinstance_dict(data) /\ HasMatrixKey(data)) \/ isinstance_list(data))
        THEN raise("ValueError")
        ELSE IF arr.exc # "none" THEN raise(arr.exc)
        ELSE IF ShapeIsGrid(matrix)
        THEN [exc |-> "none", returned |-> TRUE, val |-> matrix]
        ELSE [exc |-> "none", returned |-> FALSE, val |-> NoArray]

\* Mutant of the except clause: except json.JSONDecodeError.
ExceptException_JsonOnly(e) == e = "JSONDecodeError"

\* except Exception: every exception the body raises derives from Exception.
ExceptException(e) == e \in {"OSError", "JSONDecodeError", "ValueError", "TypeError"}

\* Mutants of the demo data: np.random.seed(42) left out, so that the draw
\* starts from whatever state the generator is in; the draw taken from
\* 60..200 instead of 60..100.
DemoMatrix_Unseeded(st) ==
    LET drawn  == np_random_randint(st, RandLow, RandHigh, N * N)
        m0     == NdArray(<<N, N>>, "num", drawn.data)
        m1     == SetItem(m0, 5, 5, Num(45))
        m2     == SetItem(m1, 10, 10, Num(52))
        m3     == SetItem(m2, 3, 12, Num(38))
    IN  [matrix |-> m3, state |-> drawn.state]
DemoMatrix_WideRange(st) ==
    LET seeded == np_random_seed(Seed)
        drawn  == np_random_randint(seeded, RandLow, RandHigh + 100, N * N)
        m0     == NdArray(<<N, N>>, "num", drawn.data)
        m1     == SetItem(m0, 5, 5, Num(45))
        m2     == SetItem(m1, 10, 10, Num(52))
        m3     == SetItem(m2, 3, 12, Num(38))
    IN  [matrix |-> m3, state |-> drawn.state]

\* Mutant of the demo data: the third cell written at (12, 3).
DemoMatrix_ThirdCellTransposed(st) ==
    LET seeded == np_random_seed(Seed)
        drawn  == np_random_randint(seeded, RandLow, RandHigh, N * N)
        m0     == NdArray(<<N, N>>, "num", drawn.data)
        m1     == SetItem(m0, 5, 5, Num(45))
        m2     == SetItem(m1, 10, 10, Num(52))
        m3     == SetItem(m2, 12, 3, Num(38))
    IN  [matrix |-> m3, state |-> drawn.state]

\* The demo data, lines 143-148, from generator state st: [matrix, state].
DemoMatrix(st) ==
    LET seeded == np_random_seed(Seed)
        drawn  == np_random_randint(seeded, RandLow, RandHigh, N * N)
        m0     == NdArray(<<N, N>>, "num", drawn.data)
        m1     == SetItem(m0, 5, 5, Num(45))
        m2     == SetItem(m1, 10, 10, Num(52))
        m3     == SetItem(m2, 3, 12, Num(38))
    IN  [matrix |-> m3, state |-> drawn.state]

\* load_register_matrix() with the file f and the generator in state st:
\* [exc, ret, state]: the exception that escapes, the value returned, the
\* generator state left behind.
load_register_matrix(f, st) ==
    LET body == TryBody(f)
        demo == DemoMatrix(st)
    IN  IF exists(f) /\ body.exc # "none" /\ ~ExceptException(body.exc)
        THEN [exc |-> body.exc, ret |-> NoArray, state |-> st]
        ELSE IF exists(f) /\ body.exc = "none" /\ body.returned
        THEN [exc |-> "none", ret |-> body.val, state |-> st]
        ELSE [exc |-> "none", ret |-> demo.matrix, state |-> demo.state]

----------------------------------------------------------------------------
(* load_coverage_data, app.py:36-75, and load_bugs_data, app.py:78-109.    *)
(* Neither has a try statement: an exception of open or json.load leaves   *)
(* the loader.                                                             *)

HistoryHours == 24     \* the demo history holds the last 24 hours
BaseCoverage == 65     \* coverage = 65 + np.cumsum(...)
ClipLow == 0           \* np.clip(coverage, 0, 100)
ClipHigh == 100

\* timedelta(hours=1) in the ticks of the clock.
TicksPerHour == 60

\* datetime.now() is read once for each point of the history (line 50, inside
\* the comprehension): a reading is the sequence of the 24 instants read, in
\* ticks.  The clock does not step back between two reads: it stands still
\* during the loop, or it ticks once on the way.
Steady(t) == [i \in 1..HistoryHours |-> t]
Ticking(t, k) == [i \in 1..HistoryHours |-> IF i <= k THEN t ELSE t + 1]
Clock == {Steady(60000), Ticking(60000, 12)}

\* date.isoformat(): the text of the instant h.  The text is kept as the
\* string value whose field n is the instant it spells.
isoformat(h) == [t |-> "str", n |-> h, s |-> "iso", items |-> <<>>]

\* np.random.normal(0.8, 1, count) from state st: count steps of -2..4 (of
\* mean 1), and the state after the draw.
np_random_normal(st, count) ==
    [data  |-> [i \in 1..count |-> (((st + 2) * i + st) % 7) - 2],
     state |-> (st + 1) % RngMod]

\* np.random.uniform(low, high) from state st: one number of low..high-1.
np_random_uniform(st, low, high) ==
    [data |-> low + ((3 * st + 7) % (high - low)), state |-> (st + 1) % RngMod]

\* np.cumsum(xs)
RECURSIVE cumsum(_)
cumsum(xs) ==
    IF Len(xs) = 0 THEN <<>>
    ELSE LET head == cumsum(SubSeq(xs, 1, Len(xs) - 1))
         IN  Append(head, (IF Len(head) = 0 THEN 0 ELSE head[Len(head)]) + xs[Len(xs)])

\* np.clip(x, low, high)
clip(x, low, high) == IF x < low THEN low ELSE IF x > high THEN high ELSE x

\* Mutant of the dates: the newest point first.
dates_NewestFirst(now) ==
    [i \in 1..HistoryHours |-> now[i] - i * TicksPerHour]

\* dates = [datetime.now() - timedelta(hours=i) for i in range(24, 0, -1)]
dates(now) ==
    [i \in 1..HistoryHours |-> now[i] - (HistoryHours + 1 - i) * TicksPerHour]

\* The demo coverage, lines 46-75, built with the clock reading now:
\* [doc, state].  The six per-file numbers are six further draws.
DemoCoverage(now) ==
    LET seeded   == np_random_seed(Seed)
        steps    == np_random_normal(seeded, HistoryHours)
        sums     == cumsum(steps.data)
        coverage == [i \in 1..HistoryHours |->
                        clip(BaseCoverage + sums[i], ClipLow, ClipHigh)]
        history  == [i \in 1..HistoryHours |->
                        Object(<<Dict("timestamp", isoformat(dates(now)[i])),
                                 Dict("coverage", Num(coverage[i]))>>)]
        s1 == steps.state
        u1 == np_random_uniform(s1, 70, 98)
        u2 == np_random_uniform(u1.state, 65, 95)
        u3 == np_random_uniform(u2.state, 80, 99)
        u4 == np_random_uniform(u3.state, 60, 90)
        u5 == np_random_uniform(u4.state, 50, 85)
        u6 == np_random_uniform(u5.state, 75, 95)
        files == Object(<<Dict("register_file.py", Num(u1.data)),
                          Dict("test_generator.py", Num(u2.data)),
                          Dict("coverage_analyzer.py", Num(u3.data)),
                          Dict("bug_tracker.py", Num(u4.data)),
                          Dict("api_wrapper.py", Num(u5.data)),
                          Dict("main.py", Num(u6.data))>>)
    IN  [doc   |-> Object(<<Dict("history", List(history)),
                            Dict("current", GetKey(history[HistoryHours], "coverage")),
                            Dict("files", files)>>),
         state |-> u6.state]

\* load_coverage_data() with the file f, the generator in state st, the
\* clock reading now: [exc, ret, state].
load_coverage_data(f, st, now) ==
    LET loaded == json_load(f)
        demo   == DemoCoverage(now)
    IN  IF exists(f)
        THEN [exc |-> loaded.exc, ret |-> loaded.val, state |-> st]
        ELSE [exc |-> "none", ret |-> demo.doc, state |-> demo.state]

\* One demo bug, lines 88-108.
Bug(id, severity, address, description, expected, actual, status, timestamp) ==
    Object(<<Dict("id", Num(id)), Dict("severity", Str(severity)),
             Dict("address", Str(address)), Dict("description", Str(description)),
             Dict("expected", Str(expected)), Dict("actual", Str(actual)),
             Dict("status", Str(status)), Dict("timestamp", Str(timestamp))>>)

\* The demo bugs (the descriptions in Latin letters).
DemoBugs ==
    List(<<Bug(1, "critical", "0x24", "Nekorrektnoe chtenie posle zapisi",
               "0x12345678", "0x87654321", "open", "2026-03-07T18:30:00"),
           Bug(2, "high", "0x30", "Sbros ne obnulyaet registr",
               "0x00000000", "0xDEADBEEF", "open", "2026-03-07T19:15:00"),
           Bug(3, "medium", "0x44", "Zaderzhka pri zapisi > 10ns",
               "<10ns", "15ns", "verified", "2026-03-07T20:00:00"),
           Bug(4, "low", "0x80", "Dokumentatsiya ne sootvetstvuet povedeniyu",
               "RW", "RO", "fixed", "2026-03-07T21:30:00"),
           Bug(5, "critical", "0x4C", "Zapis v zashchishchennyi registr",
               "0x00000000", "0xFFFFFFFF", "open", "2026-03-07T22:45:00")>>)

\* Mutant of the bug loader: the file is never looked at.
load_bugs_data_AlwaysDemo(f) == [exc |-> "none", ret |-> DemoBugs]

\* load_bugs_data() with the file f: [exc, ret].
load_bugs_data(f) ==
    LET loaded == json_load(f)
    IN  IF exists(f)
        THEN [exc |-> loaded.exc, ret |-> loaded.val]
        ELSE [exc |-> "none", ret |-> DemoBugs]

----------------------------------------------------------------------------
(* The address lookup of the register tab, app.py:467-499 *)

\* A text is a sequence of one-character strings.
HexDigits == <<"0", "1", "2", "3", "4", "5", "6", "7", "8", "9",
               "A", "B", "C", "D", "E", "F">>
LowerHex == <<"a", "b", "c", "d", "e", "f">>

\* ch.upper() and text.upper(), on the characters used here
UpperChar(ch) ==
    IF \E i \in 1..Len(LowerHex) : LowerHex[i] = ch
    THEN HexDigits[10 + (CHOOSE i \in 1..Len(LowerHex) : LowerHex[i] = ch)]
    ELSE ch
upper(text) == [i \in 1..Len(text) |-> UpperChar(text[i])]

\* int(ch, 16) of one character: [exc, val]
int16(ch) ==
    IF \E i \in 1..Len(HexDigits) : HexDigits[i] = ch
    THEN [exc |-> "none", val |-> (CHOOSE i \in 1..Len(HexDigits) : HexDigits[i] = ch) - 1]
    ELSE [exc |-> "ValueError", val |-> 0]

\* The status chosen for a coverage value, lines 477-486 (the Russian
\* words transliterated)
StatusOf(coverage_value) ==
    IF coverage_value >= 90 THEN "Otlichno"
    ELSE IF coverage_value >= 80 THEN "Khorosho"
    ELSE IF coverage_value >= 70 THEN "Sredne"
    ELSE IF coverage_value >= 60 THEN "Trebuet vnimaniya"
    ELSE "Kritichno"

\* What the block puts on the page:
\*   kind   "none" (nothing), "metric" (st.metric), "bad_address"
\*          (st.error, line 497), "bad_format" (st.error, line 499)
\*   high, low, value, status: of the metric
\* The legend beside the heatmap, lines 455-461: the bands and their words.
Band(low, high, word) == [low |-> low, high |-> high, word |-> word]
Legend ==
    <<Band(90, 100, "Otlichno"),
      Band(80, 89, "Khorosho"),
      Band(70, 79, "Sredne"),
      Band(60, 69, "Trebuet vnimaniya"),
      Band(40, 59, "Plokho"),
      Band(20, 39, "Kritichno"),
      Band(0, 19, "Kritichno")>>

NoOutput == [kind |-> "none", high |-> 0, low |-> 0, value |-> Null, status |-> ""]
Metric(high, low, value, status) ==
    [kind |-> "metric", high |-> high, low |-> low, value |-> value, status |-> status]
ErrorOutput(kind) == [kind |-> kind, high |-> 0, low |-> 0, value |-> Null, status |-> ""]

\* Mutants of the read of the cell: the row taken from the top of the
\* flipped display; row and column swapped.
ReadCell_Flipped(matrix, high, low) == GetItem(matrix, (N - 1) - high, low)
ReadCell_Swapped(matrix, high, low) == GetItem(matrix, low, high)

\* coverage_value = register_matrix[high, low], line 474
ReadCell(matrix, high, low) == GetItem(matrix, high, low)

\* The block, for the text typed (before .upper()) and the stored matrix.
\* Comparing or formatting a cell that is no number raises TypeError inside
\* the try; the bare except answers every exception with the format error.
AddressLookup(typed, matrix) ==
    LET text == upper(typed)
        high == int16(text[1])
        low  == int16(text[2])
        coverage_value == ReadCell(matrix, high.val, low.val)
    IN  IF Len(text) # 2 THEN NoOutput
        ELSE IF high.exc # "none" \/ low.exc # "none" THEN ErrorOutput("bad_format")
        ELSE IF ~(0 <= high.val /\ high.val < N /\ 0 <= low.val /\ low.val < N)
        THEN ErrorOutput("bad_address")
        ELSE IF coverage_value.t \notin {"num", "bool"} THEN ErrorOutput("bad_format")
        ELSE Metric(high.val, low.val, coverage_value, StatusOf(coverage_value.n))

----------------------------------------------------------------------------
(* The heatmap figure of the register tab, app.py:390-412 *)

\* f"0x{i:X}", for i of 0..15
HexLabel(i) == "0x" \o HexDigits[i + 1]

\* x_labels = [f"0x{i:X}" for i in range(16)]
x_labels == [k \in 1..N |-> HexLabel(k - 1)]

\* Mutant of the labels of the rows: from 0x0 up, as those of the columns.
y_labels_Ascending == [k \in 1..N |-> HexLabel(k - 1)]

\* y_labels = [f"0x{i:X}" for i in range(15, -1, -1)]
y_labels == [k \in 1..N |-> HexLabel(N - k)]

\* go.Heatmap(z=register_matrix_display, x=x_labels, y=y_labels, ...): the
\* cell z[r][c] is drawn at the labels (y[r], x[c]).
fig_heatmap(display) == [z |-> display, x |-> x_labels, y |-> y_labels]

----------------------------------------------------------------------------
(* The scan for the cells under a threshold, app.py:503-574.  The block is *)
(* commented out in app.py: the dashboard does not run it.  It is modelled *)
(* as it is written.                                                       *)

SliderMin == 0       \* min_value=0
SliderMax == 100     \* max_value=100
SliderStep == 5      \* step=5

\* The values the slider takes.
Thresholds == {t \in SliderMin..SliderMax : (t - SliderMin) % SliderStep = 0}

\* The status of a row, lines 523-530.
ProblemStatus(coverage_val) ==
    IF coverage_val < 40 THEN "KRITICHNO"
    ELSE IF coverage_val < 60 THEN "Plokho"
    ELSE IF coverage_val < 70 THEN "Trebuet vnimaniya"
    ELSE "Sredne"

\* Mutant of the address text: the two digits in the other order.
AddrText_LowFirst(i, j) == "0x" \o HexDigits[j + 1] \o HexDigits[i + 1]

\* addr = f"0x{i:X}{j:X}", line 519
AddrText(i, j) == "0x" \o HexDigits[i + 1] \o HexDigits[j + 1]

\* Mutant of the test: a cell equal to the threshold is taken too.
IsBelow_OrEqual(coverage_val, limit) == coverage_val <= limit

\* register_matrix[i, j] < threshold, line 518
IsBelow(coverage_val, limit) == coverage_val < limit

\* The row appended for the cell (i, j), lines 532-536.
ProblemRow(matrix, i, j) ==
    [addr     |-> AddrText(i, j),
     coverage |-> GetItem(matrix, i, j),
     status   |-> ProblemStatus(GetItem(matrix, i, j).n)]

\* The loops of lines 516-536: i over range(16), j over range(16) within,
\* so the k-th cell visited is (k div 16, k mod 16).  [exc, rows]: comparing
\* a cell that is no number with the threshold raises TypeError.
ProblemScan(matrix, limit) ==
    LET visited == [k \in 1..(N * N) |-> ProblemRow(matrix, (k - 1) \div N, (k - 1) % N)]
        taken(row) == IsBelow(row.coverage.n, limit)
    IN  IF \E k \in 1..(N * N) : visited[k].coverage.t \notin {"num", "bool"}
        THEN [exc |-> "TypeError", rows |-> <<>>]
        ELSE [exc |-> "none", rows |-> SelectSeq(visited, taken)]

\* The order in which a sort that is not stable leaves rows of equal key:
\* as they were, or turned round.
TieOrders == {"kept", "reversed"}

Reversed(rows) == [k \in 1..Len(rows) |-> rows[Len(rows) + 1 - k]]

\* The rows, whose keys lie in low..high, in ascending order of key: those
\* of the lower half of the keys, then those of the upper half.
RECURSIVE AscendingBetween(_, _, _, _)
AscendingBetween(rows, low, high, ties) ==
    LET mid == (low + high) \div 2
        inLower(row) == row.coverage.n <= mid
        inUpper(row) == row.coverage.n > mid
    IN  IF Len(rows) <= 1 THEN rows
        ELSE IF low >= high THEN (IF ties = "kept" THEN rows ELSE Reversed(rows))
        ELSE AscendingBetween(SelectSeq(rows, inLower), low, mid, ties)
                 \o AscendingBetween(SelectSeq(rows, inUpper), mid + 1, high, ties)

\* df.sort_values('Pokrytie'), line 540: ascending by coverage.  The default
\* kind of sort, quicksort, is not stable.
sort_values(rows, ties) ==
    LET keys == {rows[k].coverage.n : k \in 1..Len(rows)}
        low  == CHOOSE v \in keys : \A w \in keys : v <= w
        high == CHOOSE v \in keys : \A w \in keys : w <= v
    IN  IF rows = <<>> THEN <<>> ELSE AscendingBetween(rows, low, high, ties)

----------------------------------------------------------------------------
(* The inputs: the contents the matrix file takes, the texts typed *)

\* Cell i (from 0, row-major) of a structure filled after pattern p.
CellOf(p, i) ==
    CASE p = "ramp"   -> Num(i % 101)                 \* numbers of 0..100
      [] p = "wide"   -> Num(i - 28)                  \* numbers of -28..227
      [] p = "words"  -> Str("abc")                   \* strings
      [] p = "digits" -> Str(IntToStr(i % 101))       \* numbers as strings
      [] p = "mixed"  -> IF i = 37 THEN Str("n/a") ELSE Num(i % 101)
      [] p = "holes"  -> IF i = 5 THEN Null ELSE Num(i % 101)
      [] p = "flags"  -> Bool(i % 2 = 0)
      [] OTHER        -> EmptyDict                    \* "objects"

\* A flat list of n cells; a list of r lists of c cells.
FlatOf(n, p) == List([i \in 1..n |-> CellOf(p, i - 1)])
NestedOf(r, c, p) ==
    List([h \in 1..r |-> List([l \in 1..c |-> CellOf(p, (h - 1) * c + (l - 1))])])

\* The well-shaped structures: flat 256 and nested 16 x 16.
FlatGrids(ps) == {FlatOf(FlatSize, p) : p \in ps}
NestedGrids(ps) == {NestedOf(N, N, p) : p \in ps}

\* Structures of another shape.
Ragged ==
    List([h \in 1..N |-> List([l \in 1..(IF h = N THEN N - 1 ELSE N) |->
                                  CellOf("ramp", (h - 1) * N + (l - 1))])])
Cube ==
    List([h \in 1..N |-> List([l \in 1..N |->
                                  List(<<CellOf("ramp", (h - 1) * N + (l - 1))>>)])])
Misshapen ==
    { FlatOf(200, "ramp"), FlatOf(0, "ramp"), FlatOf(FlatSize + 1, "ramp"),
      NestedOf(N, N - 1, "ramp"), NestedOf(FlatSize, 1, "ramp"),
      Ragged, Cube, List(<<Num(1), List(<<Num(2)>>)>>) }

\* JSON values that are neither a list nor an object with a "matrix" key.
Foreign ==
    { Num(5), Null, EmptyDict, Dict("data", NestedOf(N, N, "ramp")),
      Object(<<Dict("rows", Num(N)), Dict("cols", Num(N))>>) }

\* An object of several keys, "matrix" among them.
Report == Object(<<Dict("run", Num(7)), Dict("matrix", NestedOf(N, N, "ramp"))>>)

Structures ==
    FlatGrids({"ramp", "wide", "words", "digits", "holes", "flags"}) \cup
    NestedGrids({"ramp", "wide", "mixed"}) \cup Misshapen

\* The values also met under the key "matrix".
Wrapped ==
    { FlatOf(FlatSize, "ramp"), NestedOf(N, N, "wide"), FlatOf(200, "ramp"),
      Num(5), Dict("matrix", NestedOf(N, N, "ramp")) }

JsonValues == Structures \cup {Dict("matrix", v) : v \in Wrapped} \cup Foreign \cup {Report}

Files == {Absent, Unreadable, Garbled} \cup {Json(v) : v \in JsonValues}

\* The contents the coverage report takes: an object of the three keys the
\* dashboard reads, with a history of two points.
CoverageReport ==
    Object(<<Dict("history",
                  List(<<Object(<<Dict("timestamp", Str("2026-03-01T10:00:00")),
                                  Dict("coverage", Num(71))>>),
                         Object(<<Dict("timestamp", Str("2026-03-01T11:00:00")),
                                  Dict("coverage", Num(74))>>)>>)),
             Dict("current", Num(74)),
             Dict("files", Object(<<Dict("register_file.py", Num(91)),
                                    Dict("main.py", Num(55))>>))>>)
CoverageFiles == {Absent, Garbled, Json(CoverageReport)}

\* The same report with another "current", and with none.
WithCurrent(current) ==
    Object(<<Dict("history", GetKey(CoverageReport, "history")),
             Dict("current", current),
             Dict("files", GetKey(CoverageReport, "files"))>>)
WithoutCurrent ==
    Object(<<Dict("history", GetKey(CoverageReport, "history")),
             Dict("files", GetKey(CoverageReport, "files"))>>)
\* The coverage files the progress bar is drawn from: no file, and reports
\* whose "current" is in range, above 100, below 0 and missing.
ProgressFiles ==
    {Absent, Json(CoverageReport), Json(WithCurrent(Num(150))),
     Json(WithCurrent(Num(-5))), Json(WithoutCurrent)}

\* The contents the bug report takes: a list of bugs.
BugReport ==
    List(<<Bug(7, "medium", "0x10", "Lishnii takt ozhidaniya",
               "1", "2", "open", "2026-03-02T09:00:00"),
           Bug(8, "low", "0x14", "Opechatka v opisanii",
               "RW", "RW", "fixed", "2026-03-02T09:30:00")>>)
BugFiles == {Absent, Json(BugReport), Json(List(<<>>))}

\* The matrix files met beside the reports.
ReportMatrixFiles == {Absent, Json(FlatOf(FlatSize, "ramp")), Json(Report)}

\* The matrices the scan is run on: the demo matrix and those of files of
\* numbers, of booleans, of strings and with a null.
ScanFiles ==
    {Absent} \cup
    {Json(FlatOf(FlatSize, p)) : p \in {"ramp", "words", "holes", "flags"}} \cup
    {Json(NestedOf(N, N, "wide"))}
ScanMatrices == {load_register_matrix(f, np_random_seed(Seed)).ret : f \in ScanFiles}

\* Texts typed into the address box.
TypedTexts ==
    { <<"A", "3">>, <<"a", "3">>, <<"F", "0">>,
      <<>>, <<"A", "3", "F">>, <<"G", "1">> }

\* The addresses of the 256 cells, as the legend's examples spell them.
CellTexts == { <<HexDigits[h], HexDigits[l]>> : h, l \in 1..N }

\* The histories given to the animated chart: up to MaxHistory rows, in any
\* order of time.
HistoryRows == [timestamp : {1, 2}, coverage : {70, 80}]
Histories == UNION { [1..n -> HistoryRows] : n \in 0..MaxHistory }

----------------------------------------------------------------------------
(* The sidebar, the headline metrics, the bug tab and the reports tab *)

\* The severities of the four checkboxes, in the order of lines 182-185, and
\* the boxes' value= arguments, lines 176-179.
Severities == <<"critical", "high", "medium", "low">>
DefaultShow ==
    [critical |-> TRUE, high |-> TRUE, medium |-> FALSE, low |-> FALSE]

\* selected_severity, lines 181-185
SelectedSeverity(checks) == SelectSeq(Severities, LAMBDA s : checks[s])

\* pd.DataFrame(data) of a list of records, line 157: the rows, and the
\* columns, which are the keys of the rows (an empty list has no column).
DataFrame(data) ==
    [rows |-> data.items,
     columns |-> UNION { { data.items[i].items[k].s :
                             k \in 1..Len(data.items[i].items) } :
                         i \in 1..Len(data.items) }]

\* df[df[column].isin(values)]: KeyError without the column; a row with
\* nothing in the column (NaN) is not among the values.
IsIn(df, column, values) ==
    IF column \notin df.columns
    THEN [exc |-> "KeyError", rows |-> <<>>]
    ELSE [exc |-> "none",
          rows |-> SelectSeq(df.rows, LAMBDA row :
                       /\ HasKey(row, column)
                       /\ \E i \in 1..Len(values) :
                            GetKey(row, column) = Str(values[i]))]

\* df_bugs[df_bugs['severity'].isin(selected_severity)]
\*     if selected_severity else df_bugs          (lines 239 and 586-589)
FilterBySeverity(df, selected) ==
    IF selected # <<>>
    THEN IsIn(df, "severity", selected)
    ELSE [exc |-> "none", rows |-> df.rows]

\* The divisor of line 206; the same number is the cap 1.0 in hundredths.
ProgressScale == 100

\* min(current_cov / 100, 1.0), line 206, in hundredths: the float passed
\* to st.progress is this number / 100.
ProgressValue(current_cov) ==
    IF current_cov < ProgressScale THEN current_cov ELSE ProgressScale

\* Lines 205-207: what is passed to st.progress, and how the call ends.
\* A current that is no number raises at the division; st.progress raises
\* StreamlitAPIException for a float outside [0.0, 1.0].
SidebarProgress(data) ==
    LET current_cov == DictGet(data, "current", Num(0))
    IN  IF current_cov.t \notin {"num", "bool"}
        THEN [exc |-> "TypeError", passed |-> <<>>]
        ELSE LET value == ProgressValue(current_cov.n)
             IN  [exc |-> IF value < 0 \/ value > ProgressScale
                          THEN "StreamlitAPIException" ELSE "none",
                  passed |-> <<value>>]

\* The bug table: not reached, the table (line 670), or the "no data" note
\* (line 691).
NoTable == [kind |-> "none", rows |-> <<>>]
Table(rows) == [kind |-> "table", rows |-> rows]
NoDataNote == [kind |-> "info", rows |-> <<>>]

\* The directory results/: whether it exists, and whether
\* results/report_images exists in it.
ResultsDir(there, images) == [exists |-> there, images |-> images]
\* The states of results/: missing, there, there with report_images in it.
ResultsDirs ==
    {ResultsDir(FALSE, FALSE), ResultsDir(TRUE, FALSE), ResultsDir(TRUE, TRUE)}

\* The formats of the export select box, line 732, the first the default.
ExportFormats == <<"JSON", "CSV", "HTML">>

\* Lines 703-725: the Markdown report.  Path("results").mkdir(exist_ok=True)
\* makes the directory if it is not there, then the file is written.
GenerateReport(d) ==
    [exc |-> "none", dir |-> ResultsDir(TRUE, d.images), saved |-> "report"]

\* Lines 735-759: the export.  The file is opened in results/ as it is:
\* open() raises FileNotFoundError and to_csv OSError when the directory is
\* missing; the HTML format writes nothing.
Export(format, d) ==
    IF format = "HTML" THEN [exc |-> "none", dir |-> d, saved |-> "later"]
    ELSE IF d.exists THEN [exc |-> "none", dir |-> d, saved |-> "export"]
    ELSE [exc |-> IF format = "JSON" THEN "FileNotFoundError" ELSE "OSError",
          dir |-> d, saved |-> "none"]

\* Lines 765-782: the report images.  Path("results/report_images")
\* .mkdir(exist_ok=True) has no parents=True: FileNotFoundError when
\* results/ is missing.
GenerateImages(d) ==
    IF d.exists
    THEN [exc |-> "none", dir |-> ResultsDir(TRUE, TRUE), saved |-> "images"]
    ELSE [exc |-> "FileNotFoundError", dir |-> d, saved |-> "none"]

\* The reports tab of a pass: the block of the button that was clicked.
ReportsBlock(button, format, d) ==
    IF button = "report" THEN GenerateReport(d)
    ELSE IF button = "export" THEN Export(format, d)
    ELSE IF button = "images" THEN GenerateImages(d)
    ELSE [exc |-> "none", dir |-> d, saved |-> "none"]

----------------------------------------------------------------------------
(* The animated coverage chart, chart_utils.py:229-275.  A history frame   *)
(* is the sequence of its rows [timestamp, coverage].                       *)

Scatter(x, y) == [x |-> x, y |-> y]
Frame(data, name) == [data |-> data, name |-> name]
NoFigure == [data |-> <<>>, frames |-> <<>>, xrange |-> <<>>]

\* df[column], as the sequence of its values
Column(df, column) == [k \in 1..Len(df) |-> df[k][column]]

\* Mutant of the slice: the frame stops one row short.
iloc_to_OneShort(df, i) == SubSeq(df, 1, i - 1)

\* history_df.iloc[:i]
iloc_to(df, i) == SubSeq(df, 1, i)

\* f'frame{i}'
FrameName(i) == "frame" \o IntToStr(i)

\* Lines 239-251: one frame for each i of range(1, len(history_df) + 1).
Frames(df) ==
    [i \in 1..Len(df) |->
        Frame(<<Scatter(Column(iloc_to(df, i), "timestamp"),
                        Column(iloc_to(df, i), "coverage"))>>,
              FrameName(i))]

\* The figure, lines 253-273; iloc[0] of an empty frame raises IndexError.
create_animated_coverage(df) ==
    IF Len(df) = 0
    THEN [exc |-> "IndexError", ret |-> NoFigure]
    ELSE LET stamps == {df[k].timestamp : k \in 1..Len(df)}
         IN  [exc |-> "none",
              ret |-> [data   |-> <<Scatter(<<df[1].timestamp>>,
                                            <<df[1].coverage>>)>>,
                       frames |-> Frames(df),
                       xrange |-> <<CHOOSE t \in stamps : \A u \in stamps : t <= u,
                                    CHOOSE t \in stamps : \A u \in stamps : t >= u>>]]

----------------------------------------------------------------------------
(* The state machine: user events, the render pass, the environment *)

EmptyCache == [full |-> FALSE, val |-> NoArray]
\* A report global not yet bound; an empty entry of a report loader.
Unbound == [t |-> "unbound", n |-> 0, s |-> "", items |-> <<>>]
EmptyEntry == [full |-> FALSE, val |-> Unbound]

\* The slider's value=70, line 510.
DefaultThreshold == 70

\* The session opens: nothing is cached, the script is about to run.
\* StartedIn(fs, cs, bs, ds): the matrix file is one of fs, the coverage
\* file one of cs, the bug file one of bs, the directory results/ one of ds
\* (it is there when one of the files is in it).
StartedIn(fs, cs, bs, ds) ==
    /\ file \in fs
    /\ cov_file \in cs
    /\ bugs_file \in bs
    /\ rng \in RngStates
    /\ cache = EmptyCache
    /\ cov_cache = EmptyEntry
    /\ bugs_cache = EmptyEntry
    /\ pc = "load_coverage"
    /\ clicked = FALSE
    /\ coverage_data = Unbound
    /\ bugs_data = Unbound
    /\ register_matrix = NoArray
    /\ register_matrix_display = NoArray
    /\ addr_input = <<"A", "3">>          \* value="A3", line 467
    /\ lookup_out = NoOutput
    /\ script_exc = "none"
    /\ threshold = DefaultThreshold
    /\ problem_addrs = <<>>
    /\ df_problems = <<>>
    /\ show = DefaultShow
    /\ export_format = ExportFormats[1]
    /\ pressed = "none"
    /\ results_dir \in ds
    /\ (exists(file) \/ exists(cov_file) \/ exists(bugs_file)) => results_dir.exists
    /\ selected_severity = <<>>
    /\ progress = <<>>
    /\ bugs_found = <<>>
    /\ df_filtered = NoTable
    /\ saved = "none"
    /\ history_df = <<>>
    /\ fig_animated = NoFigure

\* The same, results/ being there.
Started(fs, cs, bs) == StartedIn(fs, cs, bs, {ResultsDir(TRUE, FALSE)})

\* The pipeline has written both reports; the matrix file is in any state.
Init == Started(Files, {Json(CoverageReport)}, {Json(BugReport)})

\* A rerun starts the script from the top with fresh globals and a blank page.
FreshPass ==
    /\ pc' = "load_coverage"
    /\ coverage_data' = Unbound
    /\ bugs_data' = Unbound
    /\ register_matrix' = NoArray
    /\ register_matrix_display' = NoArray
    /\ lookup_out' = NoOutput
    /\ script_exc' = "none"
    /\ selected_severity' = <<>>
    /\ progress' = <<>>
    /\ bugs_found' = <<>>
    /\ df_filtered' = NoTable
    /\ saved' = "none"

\* The user types into the address box: a rerun.
TypeAddress ==
    /\ pc = "idle"
    /\ \E typed \in TypedTexts : addr_input' = typed
    /\ clicked' = FALSE
    /\ pressed' = "none"
    /\ FreshPass
    /\ UNCHANGED <<file, rng, cache, cov_cache, bugs_cache, dataFiles, scanVars,
                   show, export_format, results_dir, animVars>>

\* The user types the address of a cell: a rerun.
TypeCellAddress ==
    /\ pc = "idle"
    /\ \E typed \in CellTexts : addr_input' = typed
    /\ clicked' = FALSE
    /\ pressed' = "none"
    /\ FreshPass
    /\ UNCHANGED <<file, rng, cache, cov_cache, bugs_cache, dataFiles, scanVars,
                   show, export_format, results_dir, animVars>>

\* The user changes another widget (a checkbox, a select box): a rerun.
Interact ==
    /\ pc = "idle"
    /\ clicked' = FALSE
    /\ pressed' = "none"
    /\ FreshPass
    /\ UNCHANGED <<file, rng, cache, cov_cache, bugs_cache, addr_input,
                   dataFiles, scanVars,
                   show, export_format, results_dir, animVars>>

\* The user clicks the refresh button: a rerun in which st.button is True.
ClickRefresh ==
    /\ pc = "idle"
    /\ clicked' = TRUE
    /\ pressed' = "none"
    /\ FreshPass
    /\ UNCHANGED <<file, rng, cache, cov_cache, bugs_cache, addr_input,
                   dataFiles, scanVars,
                   show, export_format, results_dir, animVars>>

\* coverage_data = load_coverage_data(), line 152: the entry of the cache if
\* there is one, else the function runs, at some instant, and its value is
\* stored; an exception it lets out stops the pass and stores nothing.
LoadCoverage ==
    /\ pc = "load_coverage"
    /\ IF cov_cache.full
       THEN /\ coverage_data' = cov_cache.val
            /\ pc' = "load_bugs"
            /\ UNCHANGED <<cov_cache, rng, script_exc>>
       ELSE \E now \in Clock :
              LET r == load_coverage_data(cov_file, rng, now)
              IN  IF r.exc = "none"
                  THEN /\ cov_cache' = [full |-> TRUE, val |-> r.ret]
                       /\ coverage_data' = r.ret
                       /\ rng' = r.state
                       /\ pc' = "load_bugs"
                       /\ UNCHANGED script_exc
                  ELSE /\ script_exc' = r.exc
                       /\ pc' = "idle"
                       /\ UNCHANGED <<cov_cache, coverage_data, rng>>
    /\ UNCHANGED <<file, cache, bugs_cache, clicked, bugs_data, register_matrix,
                   register_matrix_display, addr_input, lookup_out,
                   dataFiles, scanVars,
                   pageVars, animVars>>

\* bugs_data = load_bugs_data(), line 153, in the same way.
LoadBugs ==
    /\ pc = "load_bugs"
    /\ IF bugs_cache.full
       THEN /\ bugs_data' = bugs_cache.val
            /\ pc' = "load"
            /\ UNCHANGED <<bugs_cache, script_exc>>
       ELSE LET r == load_bugs_data(bugs_file)
            IN  IF r.exc = "none"
                THEN /\ bugs_cache' = [full |-> TRUE, val |-> r.ret]
                     /\ bugs_data' = r.ret
                     /\ pc' = "load"
                     /\ UNCHANGED script_exc
                ELSE /\ script_exc' = r.exc
                     /\ pc' = "idle"
                     /\ UNCHANGED <<bugs_cache, bugs_data>>
    /\ UNCHANGED <<file, rng, cache, cov_cache, clicked, coverage_data,
                   register_matrix, register_matrix_display, addr_input,
                   lookup_out, dataFiles, scanVars,
                   pageVars, animVars>>

\* Mutant of the cached call: the entry is passed over and the function
\* runs again.
LoadHit_Reread ==
    /\ pc = "load"
    /\ cache.full
    /\ register_matrix' = load_register_matrix(file, rng).ret
    /\ cache' = [full |-> TRUE, val |-> load_register_matrix(file, rng).ret]
    /\ pc' = "sidebar"
    /\ UNCHANGED <<file, rng, clicked, register_matrix_display,
                   addr_input, lookup_out, script_exc, cov_cache, bugs_cache,
                   coverage_data, bugs_data, dataFiles, scanVars,
                   pageVars, animVars>>

\* register_matrix = load_register_matrix(), line 154, the entry present:
\* st.cache_data answers with a copy of the entry.
LoadHit ==
    /\ pc = "load"
    /\ cache.full
    /\ register_matrix' = cache.val
    /\ pc' = "sidebar"
    /\ UNCHANGED <<file, rng, cache, clicked, register_matrix_display,
                   addr_input, lookup_out, script_exc, cov_cache, bugs_cache,
                   coverage_data, bugs_data, dataFiles, scanVars,
                   pageVars, animVars>>

\* The same line, no entry: the function runs and its value is stored; an
\* exception it lets out stops the pass and stores nothing.
LoadMiss ==
    /\ pc = "load"
    /\ ~cache.full
    /\ LET r == load_register_matrix(file, rng)
       IN  IF r.exc = "none"
           THEN /\ cache' = [full |-> TRUE, val |-> r.ret]
                /\ register_matrix' = r.ret
                /\ rng' = r.state
                /\ pc' = "sidebar"
                /\ UNCHANGED script_exc
           ELSE /\ script_exc' = r.exc
                /\ pc' = "idle"
                /\ UNCHANGED <<cache, register_matrix, rng>>
    /\ UNCHANGED <<file, clicked, register_matrix_display, addr_input, lookup_out,
                   cov_cache, bugs_cache, coverage_data, bugs_data,
                   dataFiles, scanVars,
                   pageVars, animVars>>

\* if st.button(...): st.cache_data.clear(); st.rerun()   (lines 167-169)
\* st.cache_data.clear() empties the cache of every loader.
SidebarRefresh ==
    /\ pc = "sidebar"
    /\ clicked
    /\ cache' = EmptyCache
    /\ cov_cache' = EmptyEntry
    /\ bugs_cache' = EmptyEntry
    /\ clicked' = FALSE
    /\ pressed' = "none"
    /\ FreshPass
    /\ UNCHANGED <<file, rng, addr_input, dataFiles, scanVars,
                   show, export_format, results_dir, animVars>>

\* df_bugs = pd.DataFrame(bugs_data), line 157
df_bugs == DataFrame(bugs_data)

\* The sidebar of a pass without refresh, lines 158-214: the .get of line
\* 158 needs a dict; the checked severities are collected; the progress bar
\* is drawn.  An exception stops the pass.
SidebarPass ==
    /\ pc = "sidebar"
    /\ ~clicked
    /\ IF ~isinstance_dict(coverage_data)
       THEN /\ script_exc' = "AttributeError"
            /\ pc' = "idle"
            /\ UNCHANGED <<selected_severity, progress>>
       ELSE LET bar == SidebarProgress(coverage_data)
            IN  /\ selected_severity' = SelectedSeverity(show)
                /\ progress' = bar.passed
                /\ IF bar.exc = "none"
                   THEN pc' = "metrics" /\ UNCHANGED script_exc
                   ELSE pc' = "idle" /\ script_exc' = bar.exc
    /\ UNCHANGED <<file, rng, cache, clicked, register_matrix,
                   register_matrix_display, addr_input, lookup_out,
                   cov_cache, bugs_cache, coverage_data, bugs_data,
                   dataFiles, scanVars, bugs_found, df_filtered, saved,
                   widgets, results_dir, animVars>>

\* The headline metrics, lines 219-252: the "bugs found" metric counts the
\* filtered bugs, the "critical" metric the rows of severity critical.  A
\* KeyError of either stops the pass.
Metrics ==
    /\ pc = "metrics"
    /\ LET filtered_bugs == FilterBySeverity(df_bugs, selected_severity)
           critical == IsIn(df_bugs, "severity", <<"critical">>)
       IN  IF filtered_bugs.exc # "none"
           THEN /\ script_exc' = filtered_bugs.exc
                /\ pc' = "idle"
                /\ UNCHANGED bugs_found
           ELSE /\ bugs_found' = <<Len(filtered_bugs.rows)>>
                /\ IF critical.exc # "none"
                   THEN pc' = "idle" /\ script_exc' = critical.exc
                   ELSE pc' = "heatmap" /\ UNCHANGED script_exc
    /\ UNCHANGED <<file, rng, cache, clicked, register_matrix,
                   register_matrix_display, addr_input, lookup_out,
                   cov_cache, bugs_cache, coverage_data, bugs_data,
                   dataFiles, scanVars, selected_severity, progress,
                   df_filtered, saved, widgets, results_dir, animVars>>

\* Mutant of the heatmap step: the flip assigned to register_matrix itself.
Heatmap_InPlace ==
    /\ pc = "heatmap"
    /\ LET register_matrix_float == astype_float(register_matrix)
       IN  IF register_matrix_float.exc = "none"
           THEN /\ register_matrix_display' = flipud(register_matrix_float.val)
                /\ register_matrix' = flipud(register_matrix)
                /\ pc' = "lookup"
                /\ UNCHANGED script_exc
           ELSE /\ script_exc' = register_matrix_float.exc
                /\ pc' = "idle"
                /\ UNCHANGED <<register_matrix, register_matrix_display>>
    /\ UNCHANGED <<file, rng, cache, clicked, addr_input, lookup_out,
                   cov_cache, bugs_cache, coverage_data, bugs_data,
                   dataFiles, scanVars,
                   pageVars, animVars>>

\* Lines 370-375: the float copy and its vertical flip for the heatmap.  An
\* exception of astype stops the pass.
Heatmap ==
    /\ pc = "heatmap"
    /\ LET register_matrix_float == astype_float(register_matrix)
       IN  IF register_matrix_float.exc = "none"
           THEN /\ register_matrix_display' = flipud(register_matrix_float.val)
                /\ pc' = "lookup"
                /\ UNCHANGED script_exc
           ELSE /\ script_exc' = register_matrix_float.exc
                /\ pc' = "idle"
                /\ UNCHANGED register_matrix_display
    /\ UNCHANGED <<file, rng, cache, clicked, register_matrix, addr_input, lookup_out,
                   cov_cache, bugs_cache, coverage_data, bugs_data,
                   dataFiles, scanVars,
                   pageVars, animVars>>

\* Lines 467-499: the lookup of the typed address.
Lookup ==
    /\ pc = "lookup"
    /\ lookup_out' = AddressLookup(addr_input, register_matrix)
    /\ pc' = "bugs"
    /\ UNCHANGED <<file, rng, cache, clicked, register_matrix,
                   register_matrix_display, addr_input, script_exc,
                   cov_cache, bugs_cache, coverage_data, bugs_data,
                   dataFiles, scanVars,
                   pageVars, animVars>>

\* The bug tab, lines 581-691: with bugs, the charts by severity and by
\* status (lines 595 and 618 read the two columns) and the table of the
\* filtered bugs; without, the note.
BugsTab ==
    /\ pc = "bugs"
    /\ IF df_bugs.rows = <<>>
       THEN /\ df_filtered' = NoDataNote
            /\ pc' = "reports"
            /\ UNCHANGED script_exc
       ELSE LET shown == FilterBySeverity(df_bugs, selected_severity)
            IN  IF shown.exc = "none"
                   /\ {"severity", "status"} \subseteq df_bugs.columns
                THEN /\ df_filtered' = Table(shown.rows)
                     /\ pc' = "reports"
                     /\ UNCHANGED script_exc
                ELSE /\ script_exc' = "KeyError"
                     /\ pc' = "idle"
                     /\ UNCHANGED df_filtered
    /\ UNCHANGED <<file, rng, cache, clicked, register_matrix,
                   register_matrix_display, addr_input, lookup_out,
                   cov_cache, bugs_cache, coverage_data, bugs_data,
                   dataFiles, scanVars, selected_severity, progress,
                   bugs_found, saved, widgets, results_dir, animVars>>

\* The reports tab, lines 696-782: the block of the clicked button runs;
\* the pass ends.
ReportsTab ==
    /\ pc = "reports"
    /\ LET block == ReportsBlock(pressed, export_format, results_dir)
       IN  /\ results_dir' = block.dir
           /\ saved' = block.saved
           /\ script_exc' = block.exc
    /\ pc' = "idle"
    /\ UNCHANGED <<file, rng, cache, clicked, register_matrix,
                   register_matrix_display, addr_input, lookup_out,
                   cov_cache, bugs_cache, coverage_data, bugs_data,
                   dataFiles, scanVars, selected_severity, progress,
                   bugs_found, df_filtered, widgets, animVars>>

\* The user ticks or unticks a severity checkbox: a rerun.
ToggleSeverity ==
    /\ pc = "idle"
    /\ \E s \in DOMAIN show : show' = [show EXCEPT ![s] = ~show[s]]
    /\ clicked' = FALSE
    /\ pressed' = "none"
    /\ FreshPass
    /\ UNCHANGED <<file, rng, cache, cov_cache, bugs_cache, addr_input,
                   dataFiles, scanVars, export_format, results_dir, animVars>>

\* The user picks an export format: a rerun.
SelectFormat ==
    /\ pc = "idle"
    /\ \E k \in DOMAIN ExportFormats : export_format' = ExportFormats[k]
    /\ clicked' = FALSE
    /\ pressed' = "none"
    /\ FreshPass
    /\ UNCHANGED <<file, rng, cache, cov_cache, bugs_cache, addr_input,
                   dataFiles, scanVars, show, results_dir, animVars>>

\* The user clicks a button of the reports tab: a rerun in which that
\* st.button is True.
PressButton ==
    /\ pc = "idle"
    /\ \E b \in {"report", "export", "images"} : pressed' = b
    /\ clicked' = FALSE
    /\ FreshPass
    /\ UNCHANGED <<file, rng, cache, cov_cache, bugs_cache, addr_input,
                   dataFiles, scanVars, show, export_format, results_dir,
                   animVars>>

\* The verification pipeline writes, replaces or deletes the matrix file.
FileChange ==
    /\ pc = "idle"
    /\ \E f \in Files : file' = f
    /\ UNCHANGED <<rng, cache, pc, clicked, register_matrix,
                   register_matrix_display, addr_input, lookup_out, script_exc,
                   cov_cache, bugs_cache, coverage_data, bugs_data,
                   dataFiles, scanVars,
                   pageVars, animVars>>

\* The pipeline writes, replaces or deletes the coverage and bug reports.
ReportChange ==
    /\ pc = "idle"
    /\ \E c \in CoverageFiles, b \in BugFiles : cov_file' = c /\ bugs_file' = b
    /\ UNCHANGED <<file, rng, cache, pc, clicked, register_matrix,
                   register_matrix_display, addr_input, lookup_out, script_exc,
                   cov_cache, bugs_cache, coverage_data, bugs_data, scanVars,
                   pageVars, animVars>>

\* Another loader or page draws from np.random.
OtherDraw ==
    /\ pc \in {"idle", "load"}
    /\ rng' = np_random_advance(rng)
    /\ UNCHANGED <<file, cache, pc, clicked, register_matrix,
                   register_matrix_display, addr_input, lookup_out, script_exc,
                   cov_cache, bugs_cache, coverage_data, bugs_data,
                   dataFiles, scanVars,
                   pageVars, animVars>>

Next ==
    \/ TypeAddress
    \/ ClickRefresh
    \/ LoadCoverage
    \/ LoadBugs
    \/ LoadHit
    \/ LoadMiss
    \/ SidebarRefresh
    \/ SidebarPass
    \/ Metrics
    \/ Heatmap
    \/ Lookup
    \/ BugsTab
    \/ ReportsTab
    \/ FileChange
    \/ OtherDraw

Spec == Init /\ [][Next]_vars

\* The dashboard beside a pipeline that writes the reports: the three files
\* start in any state, the reports change between passes, the matrix file
\* stays as it is.
InitReports == Started(ReportMatrixFiles, CoverageFiles, BugFiles)

NextReports ==
    \/ Interact
    \/ ClickRefresh
    \/ LoadCoverage
    \/ LoadBugs
    \/ LoadHit
    \/ LoadMiss
    \/ SidebarRefresh
    \/ SidebarPass
    \/ Metrics
    \/ Heatmap
    \/ Lookup
    \/ BugsTab
    \/ ReportsTab
    \/ ReportChange

SpecReports == InitReports /\ [][NextReports]_vars

\* The lookup of every cell of the demo matrix: no matrix file, both
\* reports written, the user types one address after another.
InitLookup == Started({Absent}, {Json(CoverageReport)}, {Json(BugReport)})

NextLookup ==
    \/ TypeCellAddress
    \/ LoadCoverage
    \/ LoadBugs
    \/ LoadHit
    \/ LoadMiss
    \/ SidebarPass
    \/ Metrics
    \/ Heatmap
    \/ Lookup
    \/ BugsTab
    \/ ReportsTab

SpecLookup == InitLookup /\ [][NextLookup]_vars

\* The severity filter: the demo matrix, the coverage report written, the
\* bug report in any state, the user ticks and unticks the checkboxes.
InitFilters == Started({Absent}, {Json(CoverageReport)}, BugFiles)

NextFilters ==
    \/ ToggleSeverity
    \/ LoadCoverage
    \/ LoadBugs
    \/ LoadHit
    \/ LoadMiss
    \/ SidebarPass
    \/ Metrics
    \/ Heatmap
    \/ Lookup
    \/ BugsTab
    \/ ReportsTab

SpecFilters == InitFilters /\ [][NextFilters]_vars

\* The reports tab and the progress bar: the demo matrix and bugs, the
\* coverage report in any state, results/ there or not, the user picks a
\* format and clicks the buttons of the tab.
InitWrites == StartedIn({Absent}, ProgressFiles, {Absent}, ResultsDirs)

NextWrites ==
    \/ SelectFormat
    \/ PressButton
    \/ LoadCoverage
    \/ LoadBugs
    \/ LoadHit
    \/ LoadMiss
    \/ SidebarPass
    \/ Metrics
    \/ Heatmap
    \/ Lookup
    \/ BugsTab
    \/ ReportsTab

SpecWrites == InitWrites /\ [][NextWrites]_vars

\* The threshold scan, were it enabled: the matrix is any the loader
\* returns, the slider is moved, the scan runs and its table is shown.
InitScan ==
    /\ register_matrix \in ScanMatrices
    /\ threshold \in Thresholds
    /\ pc = "scan"
    /\ problem_addrs = <<>>
    /\ df_problems = <<>>
    /\ script_exc = "none"
    /\ file = Absent /\ cov_file = Absent /\ bugs_file = Absent
    /\ rng = np_random_seed(Seed)
    /\ cache = EmptyCache /\ cov_cache = EmptyEntry /\ bugs_cache = EmptyEntry
    /\ clicked = FALSE
    /\ coverage_data = Unbound /\ bugs_data = Unbound
    /\ register_matrix_display = NoArray
    /\ addr_input = <<"A", "3">>
    /\ lookup_out = NoOutput
    /\ show = DefaultShow
    /\ export_format = ExportFormats[1]
    /\ pressed = "none"
    /\ results_dir = ResultsDir(TRUE, FALSE)
    /\ selected_severity = <<>>
    /\ progress = <<>>
    /\ bugs_found = <<>>
    /\ df_filtered = NoTable
    /\ saved = "none"
    /\ history_df = <<>>
    /\ fig_animated = NoFigure

\* What the scan steps leave alone.
passVars ==
    <<file, rng, cache, clicked, register_matrix, register_matrix_display,
      addr_input, lookup_out, cov_cache, bugs_cache, coverage_data, bugs_data,
      dataFiles, pageVars, animVars>>

\* The user moves the slider, lines 506-512: a rerun.
MoveSlider ==
    /\ pc = "scanned"
    /\ \E t \in Thresholds : threshold' = t
    /\ problem_addrs' = <<>>
    /\ df_problems' = <<>>
    /\ script_exc' = "none"
    /\ pc' = "scan"
    /\ UNCHANGED passVars

\* Lines 515-536: the rows are collected; an exception stops the pass.
Scan ==
    /\ pc = "scan"
    /\ LET r == ProblemScan(register_matrix, threshold)
       IN  IF r.exc = "none"
           THEN /\ problem_addrs' = r.rows
                /\ pc' = "present"
                /\ UNCHANGED script_exc
           ELSE /\ script_exc' = r.exc
                /\ pc' = "scanned"
                /\ UNCHANGED problem_addrs
    /\ UNCHANGED <<threshold, df_problems, passVars>>

\* Lines 538-574: the table of the rows, sorted, if there is any row (else
\* a note that no address is under the threshold, and no table).
Present ==
    /\ pc = "present"
    /\ IF problem_addrs # <<>>
       THEN \E ties \in TieOrders : df_problems' = sort_values(problem_addrs, ties)
       ELSE df_problems' = <<>>
    /\ pc' = "scanned"
    /\ UNCHANGED <<threshold, problem_addrs, script_exc, passVars>>

NextScan ==
    \/ MoveSlider
    \/ Scan
    \/ Present

SpecScan == InitScan /\ [][NextScan]_vars

\* The animated chart on its own (no page calls it): a history is given,
\* the figure is built, another history is given.
InitFrames ==
    /\ history_df \in Histories
    /\ fig_animated = NoFigure
    /\ pc = "animate"
    /\ script_exc = "none"
    /\ file = Absent /\ cov_file = Absent /\ bugs_file = Absent
    /\ rng = np_random_seed(Seed)
    /\ cache = EmptyCache /\ cov_cache = EmptyEntry /\ bugs_cache = EmptyEntry
    /\ clicked = FALSE
    /\ coverage_data = Unbound /\ bugs_data = Unbound
    /\ register_matrix = NoArray
    /\ register_matrix_display = NoArray
    /\ addr_input = <<"A", "3">>
    /\ lookup_out = NoOutput
    /\ threshold = DefaultThreshold
    /\ problem_addrs = <<>>
    /\ df_problems = <<>>
    /\ show = DefaultShow
    /\ export_format = ExportFormats[1]
    /\ pressed = "none"
    /\ results_dir = ResultsDir(TRUE, FALSE)
    /\ selected_severity = <<>>
    /\ progress = <<>>
    /\ bugs_found = <<>>
    /\ df_filtered = NoTable
    /\ saved = "none"

\* What the chart steps leave alone.
pageState ==
    <<file, rng, cache, clicked, register_matrix, register_matrix_display,
      addr_input, lookup_out, cov_cache, bugs_cache, coverage_data, bugs_data,
      dataFiles, pageVars, scanVars>>

\* fig = create_animated_coverage(history_df)
Animate ==
    /\ pc = "animate"
    /\ fig_animated' = create_animated_coverage(history_df).ret
    /\ script_exc' = create_animated_coverage(history_df).exc
    /\ pc' = "animated"
    /\ UNCHANGED <<history_df, pageState>>

\* The caller comes with another history.
NewHistory ==
    /\ pc = "animated"
    /\ history_df' \in Histories
    /\ fig_animated' = NoFigure
    /\ script_exc' = "none"
    /\ pc' = "animate"
    /\ UNCHANGED pageState

NextFrames ==
    \/ Animate
    \/ NewHistory

SpecFrames == InitFrames /\ [][NextFrames]_vars

----------------------------------------------------------------------------
(* Vocabulary of the properties *)

\* The structure a JSON document carries: the value under "matrix", or the
\* document itself.
Payload(v) == IF HasKey(v, "matrix") THEN GetKey(v, "matrix") ELSE v

IsScalar(v) == v.t # "list"
IsFlat256(v) ==
    /\ v.t = "list" /\ Len(v.items) = 256
    /\ \A i \in 1..256 : IsScalar(v.items[i])
IsNested16x16(v) ==
    /\ v.t = "list" /\ Len(v.items) = 16
    /\ \A h \in 1..16 :
          /\ v.items[h].t = "list" /\ Len(v.items[h].items) = 16
          /\ \A l \in 1..16 : IsScalar(v.items[h].items[l])
IsFlat256Numbers(v) == IsFlat256(v) /\ \A i \in 1..256 : v.items[i].t = "num"
IsNested16x16Numbers(v) ==
    IsNested16x16(v) /\ \A h, l \in 1..16 : v.items[h].items[l].t = "num"

\* The file holds JSON whose structure is neither 16 x 16 nor flat 256.
Malformed(f) ==
    f.st = "json" /\ ~IsFlat256(Payload(f.v)) /\ ~IsNested16x16(Payload(f.v))

\* A 16 x 16 grid.
IsGrid16(m) == m.shape = <<16, 16>> /\ Len(m.data) = 256

\* The step that runs load_register_matrix (a cache miss) and returns.
LoaderReturns == pc = "load" /\ ~cache.full /\ pc' = "sidebar"
\* The step that runs it, however it ends.
LoaderRuns == pc = "load" /\ ~cache.full /\ pc' # "load"

\* The text of the address byte a, in capitals and in small letters.
AddressTexts(a) ==
    LET spell(d) == {HexDigits[d + 1]} \cup
                    (IF d >= 10 THEN {LowerHex[d - 9]} ELSE {})
    IN  {<<c1, c2>> : c1 \in spell(a \div 16), c2 \in spell(a % 16)}

----------------------------------------------------------------------------
(* C1..C4: load_register_matrix on the states of the file *)

\* C1: whatever results/register_matrix.json is (absent, unreadable, not
\* JSON, JSON of any shape), the matrix load_register_matrix returns, bound
\* to register_matrix and kept by the cache, has exactly 16 rows and 16
\* columns.
C1_GridAlways16x16 ==
    /\ cache.full => IsGrid16(cache.val)
    /\ pc \in {"sidebar", "heatmap", "lookup"} => IsGrid16(register_matrix)

C1_Witness ==
    /\ pc = "sidebar"
    /\ file = Json(FlatOf(FlatSize + 1, "ramp"))
    /\ cache.full
    /\ IsGrid16(register_matrix)

\* C2: a file holding a flat list of exactly 256 numbers is reshaped
\* row-major: cell (h, l) of the returned matrix is flat[16*h + l].
C2_FlatReshapedRowMajor ==
    [][ (LoaderReturns /\ file.st = "json" /\ IsFlat256Numbers(Payload(file.v)))
        => \A h, l \in 0..15 :
              GetItem(register_matrix', h, l) = Payload(file.v).items[16 * h + l + 1]
      ]_vars

C2_Witness ==
    /\ pc = "sidebar"
    /\ file = Json(FlatOf(FlatSize, "wide"))
    /\ GetItem(register_matrix, 10, 3) = Num(163 - 28)
    /\ GetItem(register_matrix, 3, 10) = Num(58 - 28)

\* C3: a file holding a nested 16 x 16 structure of numbers is loaded
\* unchanged: for every h and l the address lookup of (h, l) on the loaded
\* matrix shows input[h][l] -- not transposed, not flipped, not demo data.
C3_NestedLoadedUnchanged ==
    [][ (LoaderReturns /\ file.st = "json" /\ IsNested16x16Numbers(Payload(file.v)))
        => \A h, l \in 0..15 :
              LET out == AddressLookup(<<HexDigits[h + 1], HexDigits[l + 1]>>,
                                       register_matrix')
              IN  /\ out.kind = "metric"
                  /\ out.value = Payload(file.v).items[h + 1].items[l + 1]
                  /\ register_matrix'.data[16 * h + l + 1] = out.value
      ]_vars

C3_Witness ==
    /\ pc = "idle"
    /\ file = Json(NestedOf(N, N, "ramp"))
    /\ addr_input = <<"F", "0">>
    /\ lookup_out.kind = "metric"
    /\ lookup_out.value = Num(240 % 101)
    /\ lookup_out.value = file.v.items[16].items[1]

\* C4: a malformed structure (a flat list of a length other than 256, any
\* JSON value that is neither 16 x 16 nor flat 256) gives exactly the
\* matrix the loader gives for an absent file, and no exception leaves
\* the loader.
C4_MalformedGivesFixture ==
    [][ (LoaderRuns /\ Malformed(file))
        => /\ pc' = "sidebar"
           /\ script_exc' = "none"
           /\ register_matrix' = load_register_matrix(Absent, rng).ret
           /\ cache' = [full |-> TRUE, val |-> register_matrix']
      ]_vars

C4_Witness ==
    /\ pc = "sidebar"
    /\ file = Json(FlatOf(200, "ramp"))
    /\ script_exc = "none"
    /\ register_matrix = load_register_matrix(Absent, rng).ret
    /\ GetItem(register_matrix, 5, 5) = Num(45)

----------------------------------------------------------------------------
(* C5, C6: the cells of the returned matrix *)

InPercentRange(c) == c.t = "num" /\ 0 <= c.n /\ c.n <= 100

\* Entry i (from 1, row-major) of a flat-256 or a nested 16 x 16 structure.
EntryOf(v, i) ==
    IF IsFlat256(v) THEN v.items[i]
    ELSE v.items[((i - 1) \div 16) + 1].items[((i - 1) % 16) + 1]

\* C5: a file with non-numeric entries, also one of the shape 16 x 16 or
\* flat 256, and an unparsable file are replaced by the synthetic fixture:
\* the matrix the loader returns never holds a cell that is not a number.
C5_NeverNonNumericCell ==
    /\ cache.full => \A i \in 1..Len(cache.val.data) : cache.val.data[i].t = "num"
    /\ \A i \in 1..Len(register_matrix.data) : register_matrix.data[i].t = "num"

\* C6, as claimed: every number in the matrix the loader returns, from the
\* file or from the fixture, lies in [0, 100].
C6_EveryNumberInPercentRange ==
    cache.full =>
        \A i \in 1..Len(cache.val.data) :
            cache.val.data[i].t = "num" => InPercentRange(cache.val.data[i])

\* C6, amended: every cell of the synthetic fixture is a number in
\* [0, 100]; a matrix loaded from a 16 x 16 or flat-256 file of numbers
\* holds the file's numbers as they are, so a cell lies in [0, 100] exactly
\* when the file's number at that place does.
C6_FixtureInRangeFileAsIs ==
    [][ LoaderReturns =>
          /\ (~(file.st = "json" /\ (IsFlat256(Payload(file.v)) \/ IsNested16x16(Payload(file.v)))))
               => \A i \in 1..256 : InPercentRange(register_matrix'.data[i])
          /\ (file.st = "json" /\ (IsFlat256Numbers(Payload(file.v))
                                   \/ IsNested16x16Numbers(Payload(file.v))))
               => \A i \in 1..256 :
                     /\ register_matrix'.data[i] = EntryOf(Payload(file.v), i)
                     /\ InPercentRange(register_matrix'.data[i])
                           <=> InPercentRange(EntryOf(Payload(file.v), i))
      ]_vars

C6_Witness ==
    /\ pc = "sidebar"
    /\ file = Json(Dict("matrix", NestedOf(N, N, "wide")))
    /\ GetItem(register_matrix, 0, 0) = Num(-28)
    /\ GetItem(register_matrix, 15, 15) = Num(227)
    /\ ~InPercentRange(GetItem(register_matrix, 15, 15))

----------------------------------------------------------------------------
(* C7..C9: the address lookup and the flipped display *)

IsAddressText(text) == \E a \in 0..255 : text \in AddressTexts(a)

\* The pass ran to its end: the lookup block has run.
PassCompleted == pc = "idle" /\ script_exc = "none"

\* C7: for every address byte a of 0..255, the lookup of the two-hex-digit
\* text of a reads the cell at row a >> 4 and column a & 0xF of the stored,
\* unflipped matrix: it shows that cell whenever the cell is a number, and
\* the lookup the pass made shows the cell of the stored matrix at the
\* typed address.
C7_LookupReadsHighLow ==
    /\ pc = "lookup" =>
          \A a \in 0..255 : \A text \in AddressTexts(a) :
              LET out  == AddressLookup(text, register_matrix)
                  cell == GetItem(register_matrix, a \div 16, a % 16)
              IN  cell.t = "num" =>
                     /\ out.kind = "metric"
                     /\ out.value = cell
                     /\ out.high = a \div 16 /\ out.low = a % 16
                     /\ cell = cache.val.data[a + 1]
    /\ (PassCompleted /\ lookup_out.kind = "metric") =>
          \E a \in 0..255 :
              /\ addr_input \in AddressTexts(a)
              /\ lookup_out.high = a \div 16 /\ lookup_out.low = a % 16
              /\ lookup_out.value = cache.val.data[a + 1]

C7_Witness ==
    /\ PassCompleted
    /\ addr_input = <<"a", "3">>
    /\ cache.val = reshape(np_array(FlatOf(FlatSize, "wide")).val, N, N)
    /\ lookup_out = Metric(10, 3, Num(163 - 28), "Otlichno")

\* C8: a query outside the bounds (a text that is not the two hex digits
\* of an address of 0x00..0xFF) always ends in a visible error: the block
\* never stays silent and never shows a cell value.
C8_OutOfRangeGetsError ==
    (PassCompleted /\ ~IsAddressText(addr_input))
        => lookup_out.kind \in {"bad_address", "bad_format"}

\* C9: the vertical flip is for display only.  In and after every render
\* pass the matrix bound to register_matrix is the one the loader returned
\* (the cache entry), the display copy is that matrix upside down, and the
\* lookup shows the cell of the stored matrix, not of the display copy.
C9_FlipIsDisplayOnly ==
    /\ register_matrix # NoArray =>
          /\ cache.full
          /\ register_matrix = cache.val
    /\ register_matrix_display # NoArray =>
          \A h, l \in 0..15 :
              register_matrix_display.data[16 * h + l + 1]
                  = CellToFloat(cache.val.data[16 * (15 - h) + l + 1])
    /\ lookup_out.kind = "metric" =>
          lookup_out.value = cache.val.data[16 * lookup_out.high + lookup_out.low + 1]

C9_Witness ==
    /\ PassCompleted
    /\ addr_input = <<"F", "0">>
    /\ lookup_out.kind = "metric"
    /\ lookup_out.value = Num(240 - 28)
    /\ register_matrix_display.data[1] = Num(240 - 28)
    /\ register_matrix.data[1] = Num(-28)

----------------------------------------------------------------------------
(* C10: the synthetic fixture *)

\* C10: two generations of the synthetic fixture give the same matrix,
\* cell for cell, with (5,5) = 45, (10,10) = 52 and (3,12) = 38, whatever
\* was drawn from np.random before: the matrix generated in a pass, from
\* the state the generator happens to be in, is the one generated from any
\* other state.
C10_FixtureDeterministic ==
    [][ (LoaderReturns /\ file = Absent)
        => /\ \A st \in RngStates :
                 register_matrix' = load_register_matrix(Absent, st).ret
           /\ GetItem(register_matrix', 5, 5) = Num(45)
           /\ GetItem(register_matrix', 10, 10) = Num(52)
           /\ GetItem(register_matrix', 3, 12) = Num(38)
      ]_vars

C10_Witness ==
    /\ pc = "sidebar"
    /\ file = Absent
    /\ \A st \in RngStates : register_matrix = DemoMatrix(st).matrix
    /\ GetItem(register_matrix, 5, 5) = Num(45)
    /\ GetItem(register_matrix, 10, 10) = Num(52)
    /\ GetItem(register_matrix, 3, 12) = Num(38)

----------------------------------------------------------------------------
(* C11: the low cells of the synthetic fixture *)

\* The three cells the fixture overwrites.
LowCells == {<<5, 5>>, <<10, 10>>, <<3, 12>>}

\* C11: in the fixture the loader builds when there is no file, the cells
\* (5,5), (10,10) and (3,12) hold 45, 52 and 38, each of the other 253 cells
\* holds a number of 60..100, and so these three are the only cells under
\* 60.
C11_FixtureLowCells ==
    [][ (LoaderReturns /\ ~exists(file))
        => /\ IsGrid16(register_matrix')
           /\ GetItem(register_matrix', 5, 5) = Num(45)
           /\ GetItem(register_matrix', 10, 10) = Num(52)
           /\ GetItem(register_matrix', 3, 12) = Num(38)
           /\ \A h, l \in 0..15 :
                 <<h, l>> \notin LowCells
                    => /\ GetItem(register_matrix', h, l).t = "num"
                       /\ GetItem(register_matrix', h, l).n \in 60..100
           /\ {<<h, l>> \in (0..15) \X (0..15) :
                   GetItem(register_matrix', h, l).n < 60} = LowCells
           /\ Cardinality({<<h, l>> \in (0..15) \X (0..15) :
                              <<h, l>> \notin LowCells}) = 253
      ]_vars

C11_Witness ==
    /\ pc = "sidebar"
    /\ file = Absent
    /\ register_matrix = DemoMatrix(rng).matrix
    /\ GetItem(register_matrix, 3, 12).n < 60
    /\ GetItem(register_matrix, 3, 11).n >= 60

----------------------------------------------------------------------------
(* C12, C13: the memoisation of load_register_matrix *)

\* The step of the refresh button: the caches are cleared, the script reruns.
RefreshStep == pc = "sidebar" /\ clicked

\* C12: between two refreshes every pass sees the same matrix, built once:
\* no step but the refresh -- a change of the file included -- touches the
\* entry of the cache, and a pass that finds the entry binds
\* register_matrix to it, whatever the file holds by then.  The refresh
\* empties the cache and starts a new pass, and the pass that finds the
\* cache empty builds the matrix from the file as it is at that moment.
C12_SameMatrixUntilRefresh ==
    [][ /\ (cache.full /\ ~RefreshStep) => cache' = cache
        /\ (pc = "load" /\ cache.full /\ pc' # "load")
              => (register_matrix' = cache.val /\ pc' = "sidebar")
        /\ RefreshStep => (~cache'.full /\ pc' = "load_coverage" /\ file' = file)
        /\ LoaderReturns
              => /\ register_matrix' = load_register_matrix(file, rng).ret
                 /\ cache' = [full |-> TRUE, val |-> register_matrix']
      ]_vars

\* A pass that sees the matrix of a file deleted since.
C12_Witness ==
    /\ pc = "heatmap"
    /\ file = Absent
    /\ cache.full
    /\ register_matrix = cache.val
    /\ register_matrix = load_register_matrix(Json(FlatOf(FlatSize, "wide")), rng).ret
    /\ register_matrix # load_register_matrix(file, rng).ret

\* C13: while the matrix file does not change, the matrix the memoised
\* loader serves is the one load_register_matrix computes from scratch, from
\* the file and from any state of the generator: in every pass
\* register_matrix is that matrix, and so is the entry of the cache.
C13_CacheTransparent ==
    \A st \in RngStates :
        /\ cache.full => cache.val = load_register_matrix(file, st).ret
        /\ pc \in {"sidebar", "heatmap", "lookup"}
              => register_matrix = load_register_matrix(file, st).ret

\* A pass served from the cache, after draws that moved the generator.
C13_Witness ==
    /\ pc = "sidebar"
    /\ file = Absent
    /\ cache.full
    /\ bugs_cache.full /\ cov_cache.full
    /\ cov_file = Garbled
    /\ register_matrix = load_register_matrix(file, rng).ret

----------------------------------------------------------------------------
(* C14: the pass on any file *)

\* C14: whatever results/register_matrix.json holds, a pass (load, heatmap,
\* lookup) runs to its end: no exception stops the script.
C14_PassNeverStopped == script_exc = "none"

----------------------------------------------------------------------------
(* C15, C16: what the loaders return *)

\* A flat list of 256 scalars or 16 lists of 16 scalars.
IsGridStructure(v) == IsFlat256(v) \/ IsNested16x16(v)

\* C15: a file {"matrix": S}, S flat of 256 or 16 x 16, loads to the matrix
\* the bare file S loads to; an object without the key "matrix", and a value
\* that is neither an object nor a list, load to the fixture.
C15_WrappedAsBare ==
    [][ (LoaderReturns /\ file.st = "json")
        => /\ (isinstance_dict(file.v) /\ HasKey(file.v, "matrix")
                 /\ IsGridStructure(GetKey(file.v, "matrix")))
                => register_matrix' =
                      load_register_matrix(Json(GetKey(file.v, "matrix")), rng).ret
           /\ ((isinstance_dict(file.v) /\ ~HasKey(file.v, "matrix"))
                 \/ (~isinstance_dict(file.v) /\ ~isinstance_list(file.v)))
                => register_matrix' = load_register_matrix(Absent, rng).ret
      ]_vars

\* The wrapped flat list loaded as the bare one, which is not the fixture.
C15_Witness ==
    /\ pc = "sidebar"
    /\ file = Json(Dict("matrix", FlatOf(FlatSize, "ramp")))
    /\ register_matrix = load_register_matrix(Json(FlatOf(FlatSize, "ramp")), rng).ret
    /\ register_matrix # load_register_matrix(Absent, rng).ret
    /\ GetItem(register_matrix, 10, 3) = Num(163 - 101)

\* The step that runs load_coverage_data; the step that runs load_bugs_data.
CoverageLoaderRuns == pc = "load_coverage" /\ ~cov_cache.full
BugsLoaderRuns == pc = "load_bugs" /\ ~bugs_cache.full

\* C16: each of the three loaders, its file absent, returns its demo data
\* and no exception leaves it; its file present and well-formed, it returns
\* what the file holds, which is not the demo data.
C16_DemoOrFile ==
    [][ /\ (CoverageLoaderRuns /\ ~exists(cov_file))
              => /\ pc' = "load_bugs" /\ script_exc' = "none"
                 /\ \E now \in Clock : coverage_data' = DemoCoverage(now).doc
        /\ (CoverageLoaderRuns /\ cov_file.st = "json")
              => /\ pc' = "load_bugs" /\ script_exc' = "none"
                 /\ coverage_data' = cov_file.v
                 /\ \A now \in Clock : coverage_data' # DemoCoverage(now).doc
        /\ (BugsLoaderRuns /\ ~exists(bugs_file))
              => /\ pc' = "load" /\ script_exc' = "none"
                 /\ bugs_data' = DemoBugs
        /\ (BugsLoaderRuns /\ bugs_file.st = "json")
              => /\ pc' = "load" /\ script_exc' = "none"
                 /\ bugs_data' = bugs_file.v
                 /\ bugs_data' # DemoBugs
        /\ (LoaderRuns /\ ~exists(file))
              => /\ pc' = "sidebar" /\ script_exc' = "none"
                 /\ register_matrix' = DemoMatrix(rng).matrix
        /\ (LoaderRuns /\ file.st = "json"
                /\ (IsFlat256Numbers(Payload(file.v))
                        \/ IsNested16x16Numbers(Payload(file.v))))
              => /\ pc' = "sidebar" /\ script_exc' = "none"
                 /\ \A h, l \in 0..15 :
                       GetItem(register_matrix', h, l) =
                          IF IsFlat256(Payload(file.v))
                          THEN Payload(file.v).items[16 * h + l + 1]
                          ELSE Payload(file.v).items[h + 1].items[l + 1]
                 /\ register_matrix' # DemoMatrix(rng).matrix
      ]_vars

\* A pass with the demo coverage, the bugs of the file and the demo matrix.
C16_Witness ==
    /\ pc = "sidebar"
    /\ ~exists(cov_file) /\ bugs_file = Json(BugReport) /\ ~exists(file)
    /\ \E now \in Clock : coverage_data = DemoCoverage(now).doc
    /\ DictGet(coverage_data, "current", Null).n \in ClipLow..ClipHigh
    /\ bugs_data = BugReport
    /\ Len(bugs_data.items) = 2
    /\ register_matrix = DemoMatrix(rng).matrix

----------------------------------------------------------------------------
(* C17, C18: the scan for the cells under the threshold *)

\* The text "0xHL" of the address byte a.
HexByte(a) == "0x" \o HexDigits[(a \div 16) + 1] \o HexDigits[(a % 16) + 1]
AddressBytes == [a \in 0..255 |-> HexByte(a)]

\* The address byte a row is about.
ByteOf(row) == CHOOSE a \in 0..255 : AddressBytes[a] = row.addr

\* The rows have a row of this address and this value.
Reports(rows, addr, value) ==
    \E k \in 1..Len(rows) : rows[k].addr = addr /\ rows[k].coverage = Num(value)

\* The matrix scanned is the fixture.
ScansFixture == register_matrix = load_register_matrix(Absent, rng).ret

\* Every cell of the matrix scanned is a number (a boolean is one).
ScansNumbers ==
    \A k \in 1..Len(register_matrix.data) : register_matrix.data[k].t \in {"num", "bool"}

ExactlyTheCellsBelow(rows) ==
    /\ Len(rows) = Cardinality({a \in 0..255 : register_matrix.data[a + 1].n < threshold})
    /\ Len(rows) <= 256
    /\ \A k \in 1..Len(rows) :
          /\ rows[k].addr \in {AddressBytes[a] : a \in 0..255}
          /\ rows[k].coverage = register_matrix.data[ByteOf(rows[k]) + 1]
          /\ rows[k].coverage.n < threshold
    /\ \A j, k \in 1..Len(rows) : j # k => rows[j].addr # rows[k].addr

\* Row-major: the address bytes go up.
InRowMajorOrder(rows) ==
    \A k \in 1..(Len(rows) - 1) : ByteOf(rows[k]) < ByteOf(rows[k + 1])

\* The coverage goes up, or stays.
InCoverageOrder(rows) ==
    \A k \in 1..(Len(rows) - 1) : rows[k].coverage.n <= rows[k + 1].coverage.n

----------------------------------------------------------------------------
(* C20: the labels of the heatmap *)

----------------------------------------------------------------------------
(* C21: the status of the lookup against the legend *)

\* The words of the legend bands that contain the value.
LegendWords(value) ==
    {Legend[k].word : k \in {b \in 1..Len(Legend) :
                                Legend[b].low  <= value /\ value <= Legend[b].high}}
BandsOf(value) ==
    {b \in 1..Len(Legend) : Legend[b].low <= value /\ value <= Legend[b].high}

\* C21: when the lookup shows a value of 0..100, the status it shows is the
\* word of the legend band that contains the value (90-100 "Otlichno",
\* 80-89 "Khorosho", 70-79 "Sredne", 60-69 "Trebuet vnimaniya", 40-59
\* "Plokho", 0-39 "Kritichno"), and exactly one band contains the value.
C21_StatusIsLegendBand ==
    (lookup_out.kind = "metric" /\ lookup_out.value.n \in 0..100)
    => /\ Cardinality(BandsOf(lookup_out.value.n)) = 1
       /\ LegendWords(lookup_out.value.n) = {lookup_out.status}

----------------------------------------------------------------------------
(* C22: the severity filter in the metric and in the bug table *)

\* The loaded bugs the checkboxes ask for: those of a checked severity, or
\* all of them when no box is checked.
WantedBugs ==
    LET checked == {s \in DOMAIN show : show[s]}
    IN  IF checked = {} THEN bugs_data.items
        ELSE SelectSeq(bugs_data.items, LAMBDA bug :
                 /\ HasKey(bug, "severity")
                 /\ GetKey(bug, "severity").s \in checked)

\* C22: after a pass, whatever the four checkboxes are, the "bugs found"
\* metric counts exactly the loaded bugs of a checked severity and the bug
\* tab shows exactly those bugs (the table, or the note when there is no
\* bug at all); with no box checked both show all the bugs.
C22_MetricAndTableShowChecked ==
    pc = "idle"
    => /\ bugs_found = <<Len(WantedBugs)>>
       /\ df_filtered.kind \in {"table", "info"}
       /\ df_filtered.rows = WantedBugs

----------------------------------------------------------------------------
(* C23: the demo coverage data *)

\* The history points of a coverage document; the instant and the coverage
\* of a point.
HistoryOf(doc) == GetKey(doc, "history").items
StampOf(point) == GetKey(point, "timestamp").n
CoverageOf(point) == GetKey(point, "coverage").n

\* What C23 says of a demo document but for the gaps: 24 points, every
\* coverage in [0, 100], "current" the coverage of the last point.
DemoShaped(doc) ==
    /\ Len(HistoryOf(doc)) = 24
    /\ \A i \in 1..24 : CoverageOf(HistoryOf(doc)[i]) \in 0..100
    /\ GetKey(doc, "current") = GetKey(HistoryOf(doc)[24], "coverage")

----------------------------------------------------------------------------
(* C24: the frames of the animated chart *)

\* The names the frames are to carry, in order.
FrameNames == <<"frame1", "frame2", "frame3", "frame4", "frame5", "frame6">>

\* C24: for a history of n >= 1 points create_animated_coverage returns a
\* figure with exactly n frames; frame i is named "frame<i>" and its one
\* trace holds exactly the first i points of the history, in order (so each
\* frame is the one before it and one point more); the figure's own trace
\* holds the first point alone.
C24_FramesArePrefixes ==
    (pc = "animated" /\ Len(history_df) >= 1)
    => /\ script_exc = "none"
       /\ Len(fig_animated.frames) = Len(history_df)
       /\ \A i \in 1..Len(history_df) :
             /\ fig_animated.frames[i].name = FrameNames[i]
             /\ Len(fig_animated.frames[i].data) = 1
             /\ fig_animated.frames[i].data[1].x
                   = [k \in 1..i |-> history_df[k].timestamp]
             /\ fig_animated.frames[i].data[1].y
                   = [k \in 1..i |-> history_df[k].coverage]
       /\ fig_animated.data
             = <<[x |-> <<history_df[1].timestamp>>,
                  y |-> <<history_df[1].coverage>>]>>

\* The figure of a history of three points, later ones earlier in time.
C24_Witness ==
    /\ pc = "animated"
    /\ Len(history_df) = 3
    /\ history_df[1].timestamp = 2 /\ history_df[3].timestamp = 1
    /\ Len(fig_animated.frames) = 3
    /\ fig_animated.frames[3].name = "frame3"
    /\ fig_animated.frames[2].data[1].y = <<history_df[1].coverage, history_df[2].coverage>>

----------------------------------------------------------------------------
(* C25: the writes of the reports tab *)

\* The pass is at the reports tab with a button clicked whose block writes
\* a file: the report, the export as JSON or CSV, the images.
WritePressed ==
    /\ pc = "reports"
    /\ \/ pressed \in {"report", "images"}
       \/ pressed = "export" /\ export_format \in {"JSON", "CSV"}

\* C25: whichever button of the reports tab is clicked (Markdown report,
\* JSON or CSV export, report images), and whether or not results/ exists
\* yet, its block writes its file: no exception, and the success message
\* of that button is shown.
C25_EveryWriteSucceeds ==
    [][ WritePressed => (script_exc' = "none" /\ saved' = pressed) ]_vars

----------------------------------------------------------------------------
(* C26: the value of the progress bar *)

\* C26: whatever "current" the loaded coverage data holds (above 100, below
\* 0, or no such key), the value passed to st.progress lies in [0, 1]: in
\* hundredths, in 0..100.
C26_ProgressWithinUnit ==
    progress # <<>> => (0 <= progress[1] /\ progress[1] <= ProgressScale)

====
